---- MODULE Spec2Model ----
(***************************************************************************)
(* Model of credentials_manager.CredentialsManager: a process-wide         *)
(* singleton holding a dict of API keys, loaded from a JSON file,          *)
(* overridden from the environment, read by get_key and written by         *)
(* set_key.                                                                *)
(*                                                                         *)
(* A Python str is a sequence of one-character strings.  A dict is a       *)
(* sequence of <<key, value>> pairs with distinct keys, in insertion       *)
(* order.  The text of the config file is a sequence of JSON tokens.       *)
(* Keys and values are strings (the data model of the store); the file is  *)
(* absent, or holds a JSON object of strings, or holds text that does not  *)
(* parse.                                                                  *)
(***************************************************************************)
EXTENDS Integers, Sequences, FiniteSets, TLC

VARIABLES
    instance,     \* CredentialsManager._instance: 0 is None, 1 the singleton object
    initialized,  \* hasattr(self, "_initialized")
    has_attrs,    \* self._config_path and self._keys have been assigned
    keys,         \* self._keys
    file,         \* the config file: [exists, text]
    env,          \* os.environ: a function from the names that are set to their values
    init_pc,      \* the body of __init__: "new", "done", or the exception that ended it
    result,       \* what the last call did and returned
    have_ref,     \* the caller holds a reference: some construction has returned
    last_set,     \* per key name, the last set_key call on it: [value, persisted]
    at_init,      \* the file and the environment as the body of __init__ found them
    later_ref,    \* a construction has returned since the last set_key or outside change
    calls,        \* number of API calls made so far
    changes       \* number of changes made from outside the store so far

vars == <<instance, initialized, has_attrs, keys, file, env, init_pc, result,
          have_ref, last_set, at_init, later_ref, calls, changes>>

----------------------------------------------------------------------------
(* Bounds *)

MaxCalls == 4

MaxChanges == 1

----------------------------------------------------------------------------
(* Strings *)

Lower == <<"a","b","c","d","e","f","g","h","i","j","k","l","m",
           "n","o","p","q","r","s","t","u","v","w","x","y","z">>

Capital == <<"A","B","C","D","E","F","G","H","I","J","K","L","M",
             "N","O","P","Q","R","S","T","U","V","W","X","Y","Z">>

\* str.upper() on one character
UpperChar(c) ==
    IF \E i \in 1..Len(Lower) : Lower[i] = c
    THEN Capital[CHOOSE i \in 1..Len(Lower) : Lower[i] = c]
    ELSE c

\* str.upper()
Upper(s) == [i \in 1..Len(s) |-> UpperChar(s[i])]

\* str.startswith(prefix)
StartsWith(s, prefix) ==
    /\ Len(s) >= Len(prefix)
    /\ SubSeq(s, 1, Len(prefix)) = prefix

Your == <<"Y","o","u","r">>

EXAMPLE_API_NAME == <<"E","X","A","M","P","L","E","_","A","P","I","_","N","A","M","E">>

EXAMPLE_API_KEY == <<"E","X","A","M","P","L","E","_","A","P","I","_","K","E","Y">>

\* the class attribute DEFAULT_CONFIG
DEFAULT_CONFIG == << <<EXAMPLE_API_NAME, EXAMPLE_API_KEY>> >>

\* The names bound at module level; a bare name in a method body is looked
\* up here (class attributes are not in scope).
ModuleGlobals == {"os", "json", "CredentialsManager"}

NameBound(n) == n \in ModuleGlobals

----------------------------------------------------------------------------
(* dict *)

DictKeys(d) == {d[i][1] : i \in 1..Len(d)}

DictHas(d, k) == k \in DictKeys(d)

\* d[k], for k in d
DictVal(d, k) == d[CHOOSE i \in 1..Len(d) : d[i][1] = k][2]

\* d[k] = v: an existing key keeps its place, a new one goes last
DictSet(d, k, v) ==
    IF DictHas(d, k)
    THEN [i \in 1..Len(d) |-> IF d[i][1] = k THEN <<k, v>> ELSE d[i]]
    ELSE Append(d, <<k, v>>)

\* the dict as a mapping, insertion order forgotten
AsMap(d) == [k \in DictKeys(d) |-> DictVal(d, k)]

----------------------------------------------------------------------------
(* JSON text *)

LB == [t |-> "{", s |-> <<>>]

RB == [t |-> "}", s |-> <<>>]

COLON == [t |-> ":", s |-> <<>>]

COMMA == [t |-> ",", s |-> <<>>]

Str(s) == [t |-> "str", s |-> s]

RECURSIVE DumpMembers(_, _)
DumpMembers(d, i) ==
    IF i > Len(d) THEN <<>>
    ELSE (IF i > 1 THEN <<COMMA>> ELSE <<>>)
         \o <<Str(d[i][1]), COLON, Str(d[i][2])>>
         \o DumpMembers(d, i + 1)

\* json.dump(d, f, indent=4): the text written for a dict of strings
JsonDump(d) == <<LB>> \o DumpMembers(d, 1) \o <<RB>>

\* Parses the members of an object from token i on, into dict d.
RECURSIVE ParseMembers(_, _, _)
ParseMembers(text, i, d) ==
    IF /\ i + 3 <= Len(text)
       /\ text[i].t = "str" /\ text[i + 1] = COLON /\ text[i + 2].t = "str"
    THEN LET d2 == DictSet(d, text[i].s, text[i + 2].s)
         IN  IF text[i + 3] = RB /\ i + 3 = Len(text)
             THEN [ok |-> TRUE, dict |-> d2]
             ELSE IF text[i + 3] = COMMA
                  THEN ParseMembers(text, i + 4, d2)
                  ELSE [ok |-> FALSE, dict |-> <<>>]
    ELSE [ok |-> FALSE, dict |-> <<>>]

\* json.load(f) on the text of the file: ok is FALSE where it raises.
\* A repeated member name keeps its first place and its last value.
JsonLoad(text) ==
    IF Len(text) >= 2 /\ text[1] = LB
    THEN IF text[2] = RB /\ Len(text) = 2
         THEN [ok |-> TRUE, dict |-> <<>>]
         ELSE ParseMembers(text, 2, <<>>)
    ELSE [ok |-> FALSE, dict |-> <<>>]

----------------------------------------------------------------------------
(* The inputs *)

Foo == <<"f","o","o">>

FOO == <<"F","O","O">>

Xk == <<"X">>

some_bad_example == <<"b","a","d">>

bar123 == <<"b","a","r">>

YourKeyHere == <<"Y","o","u","r","K">>

You == <<"Y","o","u">>

your == <<"y","o","u","r">>

env_value == <<"e","n","v">>

NoFile == [exists |-> FALSE, text |-> <<>>]

FileOf(text) == [exists |-> TRUE, text |-> text]

\* The config files a construction may find, and an outside edit may leave.
Files ==
    { NoFile,
      FileOf(<<LB, Str(Foo), COLON>>),
      FileOf(JsonDump(<< <<Foo, bar123>>, <<FOO, bar123>>, <<Foo, YourKeyHere>> >>)),
      FileOf(JsonDump(<< <<Xk, your>>, <<Foo, You>> >>)),
      FileOf(JsonDump(DEFAULT_CONFIG)) }

\* What an outside edit may leave.
Edits ==
    { NoFile,
      FileOf(JsonDump(<< <<Foo, YourKeyHere>>, <<FOO, bar123>> >>)) }

NoEnv == [n \in {} |-> <<>>]

\* The environments the process may start in.
Envs ==
    { NoEnv,
      [n \in {FOO} |-> env_value],
      (FOO :> <<>>) @@ (Xk :> YourKeyHere) @@ (EXAMPLE_API_NAME :> env_value) }

EnvNames == {FOO}

EnvValues == {env_value}

GetNames == {Foo, Xk, EXAMPLE_API_NAME, some_bad_example}

SetNames == {Foo, Xk}

SetValues == {bar123, YourKeyHere}

\* How the write of _save_config ends: done, open() raises, or a write
\* raises after open() has truncated the file.
WriteOutcomes == {"ok", "open_raises", "write_raises"}

\* How many tokens of the text are in the file when a write raises: none
\* yet, or the first.  (No proper prefix of the text parses; these two
\* stand for all of them.)
Truncations(text) == {n \in 0..(Len(text) - 1) : n <= 1}

\* The one call of __init__'s body that raises for a reason outside the
\* program, if any: os.makedirs, open(path, "w"), or open(path, "r").
Faults == {"none", "makedirs", "open_w", "open_r"}

----------------------------------------------------------------------------
(* The operations *)

\* What a call leaves in result.
Res(op, name, value, outcome, obj, fresh, persisted) ==
    [op |-> op, name |-> name, value |-> value, outcome |-> outcome,
     obj |-> obj, fresh |-> fresh, persisted |-> persisted]

\* __new__: the instance the call returns, allocated on the first call only
New(inst) == IF inst = 0 THEN 1 ELSE inst

\* (mutant) the body runs on every construction
InitAlwaysRuns(init) == TRUE

\* __init__'s guard: the body runs when the object has no _initialized
InitRuns(init) == ~init

\* (mutant) a file that was read is written back as it was understood
LoadConfigFileRewrites(f, fault) ==
    IF f.exists /\ fault # "open_r" /\ JsonLoad(f.text).ok
    THEN [outcome |-> "ok", keys |-> JsonLoad(f.text).dict,
          file |-> FileOf(JsonDump(JsonLoad(f.text).dict))]
    ELSE IF f.exists
         THEN [outcome |-> "RuntimeError", keys |-> <<>>, file |-> f]
         ELSE IF fault = "open_w"
              THEN [outcome |-> "OSError", keys |-> <<>>, file |-> f]
              ELSE [outcome |-> "NameError", keys |-> <<>>, file |-> FileOf(<<>>)]

\* _load_config_file: the outcome, self._keys and the file afterwards
LoadConfigFile(f, fault) ==
    IF ~f.exists
    THEN IF fault = "open_w"
         THEN [outcome |-> "OSError", keys |-> <<>>, file |-> f]
         ELSE IF NameBound("DEFAULT_CONFIG")
              THEN [outcome |-> "ok", keys |-> DEFAULT_CONFIG,
                    file |-> FileOf(JsonDump(DEFAULT_CONFIG))]
              ELSE [outcome |-> "NameError", keys |-> <<>>, file |-> FileOf(<<>>)]
    ELSE IF fault # "open_r" /\ JsonLoad(f.text).ok
         THEN [outcome |-> "ok", keys |-> JsonLoad(f.text).dict, file |-> f]
         ELSE [outcome |-> "RuntimeError", keys |-> <<>>, file |-> f]

\* (mutant) the variable is set, empty or not
EnvIsSet(e, name) == name \in DOMAIN e

\* os.getenv(name) is truthy: set and not empty
EnvTruthy(e, name) == name \in DOMAIN e /\ e[name] # <<>>

RECURSIVE OverrideFrom(_, _, _)
OverrideFrom(d, e, i) ==
    IF i > Len(d) THEN d
    ELSE IF EnvTruthy(e, Upper(d[i][1]))
         THEN OverrideFrom(DictSet(d, d[i][1], e[Upper(d[i][1])]), e, i + 1)
         ELSE OverrideFrom(d, e, i + 1)

\* (mutant) the overriding values are not stored
OverrideDiscarded(d, e) == d

\* _override_with_env
OverrideWithEnv(d, e) == OverrideFrom(d, e, 1)

\* (mutant) only the value "Your" itself counts as a placeholder
get_key_exact(d, key_name) ==
    IF ~DictHas(d, key_name) \/ DictVal(d, key_name) = Your
    THEN [outcome |-> "ValueError", value |-> <<>>]
    ELSE [outcome |-> "ok", value |-> DictVal(d, key_name)]

\* get_key on self._keys = d
get_key(d, key_name) ==
    IF ~DictHas(d, key_name) \/ StartsWith(DictVal(d, key_name), Your)
    THEN [outcome |-> "ValueError", value |-> <<>>]
    ELSE [outcome |-> "ok", value |-> DictVal(d, key_name)]

\* (mutant) the update replaces the dict by one holding the new entry alone
set_key_replaces(d, key_name, key_value) == << <<key_name, key_value>> >>

\* set_key's update of self._keys = d
set_key(d, key_name, key_value) == DictSet(d, key_name, key_value)

\* (mutant) the exception of a failed write reaches the caller
SaveOutcomeRaises(io) == IF io = "ok" THEN "ok" ELSE "OSError"

\* How set_key ends when the write ended as io says: _save_config catches
\* every Exception and prints it.
SaveOutcome(io) == "ok"

\* (mutant) the write is buffered and has not reached the file
SaveConfigBuffered(f, d, io, n) == f

\* _save_config: the file after the write of d ended as io says, n tokens written
SaveConfig(f, d, io, n) ==
    CASE io = "ok" -> FileOf(JsonDump(d))
      [] io = "open_raises" -> f
      [] io = "write_raises" -> FileOf(SubSeq(JsonDump(d), 1, n))

\* CredentialsManager(): __new__, then __init__
Construct(fault) ==
    /\ calls < MaxCalls
    /\ calls' = calls + 1
    /\ instance' = New(instance)
    /\ UNCHANGED <<env, last_set, changes>>
    /\ IF ~InitRuns(initialized)
       THEN /\ result' = Res("construct", <<>>, <<>>, "ok", instance', FALSE, FALSE)
            /\ have_ref' = TRUE
            /\ later_ref' = TRUE
            /\ UNCHANGED <<initialized, has_attrs, keys, file, init_pc, at_init>>
       ELSE /\ initialized' = TRUE
            /\ at_init' = [file |-> file, env |-> env]
            /\ UNCHANGED later_ref
            /\ IF fault = "makedirs"
               THEN /\ result' = Res("construct", <<>>, <<>>, "OSError", 0, TRUE, FALSE)
                    /\ init_pc' = "OSError"
                    /\ UNCHANGED <<has_attrs, keys, file, have_ref>>
               ELSE LET l == LoadConfigFile(file, fault)
                    IN  /\ has_attrs' = TRUE
                        /\ file' = l.file
                        /\ IF l.outcome = "ok"
                           THEN /\ keys' = OverrideWithEnv(l.keys, env)
                                /\ init_pc' = "done"
                                /\ have_ref' = TRUE
                                /\ result' = Res("construct", <<>>, <<>>, "ok",
                                                 instance', TRUE, FALSE)
                           ELSE /\ keys' = l.keys
                                /\ init_pc' = l.outcome
                                /\ result' = Res("construct", <<>>, <<>>, l.outcome,
                                                 0, TRUE, FALSE)
                                /\ UNCHANGED have_ref

\* manager.get_key(key_name)
GetKey(key_name) ==
    /\ have_ref
    /\ calls < MaxCalls
    /\ calls' = calls + 1
    /\ result' = IF ~has_attrs
                 THEN Res("get", key_name, <<>>, "AttributeError", 0, FALSE, FALSE)
                 ELSE Res("get", key_name, get_key(keys, key_name).value,
                          get_key(keys, key_name).outcome, 0, FALSE, FALSE)
    /\ UNCHANGED <<instance, initialized, has_attrs, keys, file, env, init_pc,
                   have_ref, last_set, at_init, later_ref, changes>>

\* manager.set_key(key_name, key_value)
SetKey(key_name, key_value, io) ==
    /\ have_ref
    /\ calls < MaxCalls
    /\ calls' = calls + 1
    /\ UNCHANGED <<instance, initialized, has_attrs, env, init_pc, have_ref,
                   at_init, changes>>
    /\ IF ~has_attrs
       THEN /\ result' = Res("set", key_name, key_value, "AttributeError", 0, FALSE, FALSE)
            /\ UNCHANGED <<keys, file, last_set, later_ref>>
       ELSE /\ keys' = set_key(keys, key_name, key_value)
            /\ \E n \in Truncations(JsonDump(keys')) :
                   file' = SaveConfig(file, keys', io, n)
            /\ result' = Res("set", key_name, key_value, SaveOutcome(io), 0, FALSE, io = "ok")
            /\ later_ref' = FALSE
            /\ last_set' = (key_name :> [value |-> key_value, persisted |-> (io = "ok")])
                           @@ last_set

\* os.environ[name] = value, from anywhere in the process
SetEnv(name, value) ==
    /\ initialized
    /\ changes < MaxChanges
    /\ changes' = changes + 1
    /\ env' = (name :> value) @@ env
    /\ result' = Res("setenv", name, value, "ok", 0, FALSE, FALSE)
    /\ UNCHANGED <<instance, initialized, has_attrs, keys, file, init_pc,
                   have_ref, last_set, at_init, calls>>
    /\ later_ref' = FALSE

\* del os.environ[name]
UnsetEnv(name) ==
    /\ initialized
    /\ changes < MaxChanges
    /\ name \in DOMAIN env
    /\ changes' = changes + 1
    /\ env' = [n \in DOMAIN env \ {name} |-> env[n]]
    /\ result' = Res("unsetenv", name, <<>>, "ok", 0, FALSE, FALSE)
    /\ UNCHANGED <<instance, initialized, has_attrs, keys, file, init_pc,
                   have_ref, last_set, at_init, calls>>
    /\ later_ref' = FALSE

\* The user edits, replaces or removes the config file.  (What the file
\* and the environment are before the first construction is Init's choice.)
EditFile(f) ==
    /\ initialized
    /\ changes < MaxChanges
    /\ f # file
    /\ changes' = changes + 1
    /\ file' = f
    /\ result' = Res("edit", <<>>, <<>>, "ok", 0, FALSE, FALSE)
    /\ UNCHANGED <<instance, initialized, has_attrs, keys, env, init_pc,
                   have_ref, last_set, at_init, calls>>
    /\ later_ref' = FALSE

Init ==
    /\ instance = 0
    /\ initialized = FALSE
    /\ has_attrs = FALSE
    /\ keys = <<>>
    /\ file \in Files
    /\ env \in Envs
    /\ init_pc = "new"
    /\ result = Res("none", <<>>, <<>>, "ok", 0, FALSE, FALSE)
    /\ have_ref = FALSE
    /\ last_set = [n \in {} |-> [value |-> <<>>, persisted |-> FALSE]]
    /\ at_init = [file |-> NoFile, env |-> NoEnv]
    /\ later_ref = FALSE
    /\ calls = 0
    /\ changes = 0

Next ==
    \/ \E fault \in Faults : Construct(fault)
    \/ \E key_name \in GetNames : GetKey(key_name)
    \/ \E key_name \in SetNames, key_value \in SetValues, io \in WriteOutcomes :
           SetKey(key_name, key_value, io)
    \/ \E name \in EnvNames, value \in EnvValues : SetEnv(name, value)
    \/ \E name \in EnvNames : UnsetEnv(name)
    \/ \E f \in Edits : EditFile(f)

Spec == Init /\ [][Next]_vars

----------------------------------------------------------------------------
(* The vocabulary of the claims, in terms of the state alone *)

\* The value begins with the literal prefix "Your".
Placeholder(v) ==
    Len(v) >= 4 /\ v[1] = "Y" /\ v[2] = "o" /\ v[3] = "u" /\ v[4] = "r"

\* The key names present in KeyStore d.
Names(d) == {p[1] : p \in {d[i] : i \in 1..Len(d)}}

\* The values KeyStore d holds for name k (one, when k is present).
Values(d, k) == {p[2] : p \in {q \in {d[i] : i \in 1..Len(d)} : q[1] = k}}

\* KeyStore d maps k to v.
Maps(d, k, v) == Values(d, k) = {v}

\* The places of the members of the JSON object in a text.
Members(text) == {i \in 2..(Len(text) - 1) : text[i] = COLON}

\* The member names of the JSON object in a text.
FileNames(text) == {text[i - 1].s : i \in Members(text)}

\* The value of member k in a text: that of its last occurrence.
FileValue(text, k) ==
    LET at == {i \in Members(text) : text[i - 1].s = k}
        last == CHOOSE i \in at : \A j \in at : j <= i
    IN  text[last + 1].s

\* The text parses as a JSON object and maps exactly the names of d, each
\* to the value d holds for it.
ReadsBackAs(text, d) ==
    /\ JsonLoad(text).ok
    /\ FileNames(text) = Names(d)
    /\ \A k \in Names(d) : Maps(d, k, FileValue(text, k))

\* The value of the environment variable upper-case(k), where it is set and
\* not empty.
Overrides(e, k) == Upper(k) \in DOMAIN e /\ e[Upper(k)] # <<>>

\* The first construction ran to its end.
Constructed == init_pc = "done"

----------------------------------------------------------------------------
(* C1 *)

\* C1: after a successful construction and any set calls, get(name) returns
\* KeyStore[name] exactly when name is present and its value does not begin
\* with "Your"; otherwise it fails with KeyNotConfiguredError (ValueError)
\* and returns no value.
C1_GetContract ==
    (Constructed /\ result.op = "get") =>
        IF \E v \in Values(keys, result.name) : ~Placeholder(v)
        THEN result.outcome = "ok" /\ Maps(keys, result.name, result.value)
        ELSE result.outcome = "ValueError" /\ result.value = <<>>

\* A get of a key that set has just stored with a placeholder value fails.
C1_Witness ==
    /\ Constructed /\ result.op = "get"
    /\ result.name \in DOMAIN last_set
    /\ Placeholder(last_set[result.name].value)
    /\ Maps(keys, result.name, last_set[result.name].value)
    /\ result.outcome = "ValueError"

----------------------------------------------------------------------------
(* C2 *)

\* C2: immediately after a set(name, value) whose write succeeded, the file
\* read back equals the whole KeyStore, which is the KeyStore before the
\* call with name mapped to value.
C2_RoundTrip ==
    [][(result'.op = "set" /\ result'.persisted) =>
         /\ file'.exists
         /\ ReadsBackAs(file'.text, keys')
         /\ Maps(keys', result'.name, result'.value)
         /\ Names(keys') = Names(keys) \cup {result'.name}
         /\ \A k \in Names(keys) \ {result'.name} :
                Values(keys', k) = Values(keys, k)]_vars

\* A persisted set has added a second key to a store that held another.
C2_Witness ==
    /\ result.op = "set" /\ result.persisted
    /\ Cardinality(Names(keys)) >= 2
    /\ ReadsBackAs(file.text, keys)
    /\ \E k \in Names(keys) : k # result.name

----------------------------------------------------------------------------
(* C3 *)

----------------------------------------------------------------------------
(* C4 *)

\* C4: a first construction that finds no config file (and no variable
\* EXAMPLE_API_NAME, and no failure of the file system) succeeds, leaves
\* the default mapping in the file and in KeyStore, and a following
\* get("EXAMPLE_API_NAME") returns "EXAMPLE_API_KEY".
C4_DefaultCreated ==
    /\ (result.op = "construct" /\ result.fresh /\ ~at_init.file.exists
          /\ EXAMPLE_API_NAME \notin DOMAIN at_init.env
          /\ result.outcome # "OSError") =>
           /\ result.outcome = "ok"
           /\ file.exists
           /\ ReadsBackAs(file.text, DEFAULT_CONFIG)
           /\ Names(keys) = {EXAMPLE_API_NAME}
           /\ Maps(keys, EXAMPLE_API_NAME, EXAMPLE_API_KEY)
    /\ (result.op = "get" /\ result.name = EXAMPLE_API_NAME
          /\ ~at_init.file.exists /\ init_pc \notin {"new", "OSError"}
          /\ EXAMPLE_API_NAME \notin DOMAIN at_init.env
          /\ EXAMPLE_API_NAME \notin DOMAIN last_set) =>
           /\ result.outcome = "ok"
           /\ result.value = EXAMPLE_API_KEY

----------------------------------------------------------------------------
(* C5 *)

----------------------------------------------------------------------------
(* C6 *)

\* C6: when the file exists but cannot be parsed, construction fails with
\* ConfigReadError (RuntimeError): neither the first construction (once it
\* has got as far as the file) nor a later one, the file still being what
\* it was, returns normally with an empty KeyStore.
C6_NoSilentEmptyStore ==
    (result.op = "construct" /\ has_attrs
       /\ file.exists /\ ~JsonLoad(file.text).ok
       /\ at_init.file = file /\ changes = 0) =>
        /\ result.outcome = "RuntimeError"
        /\ ~(result.outcome = "ok" /\ Names(keys) = {})

----------------------------------------------------------------------------
(* C7 *)

\* C7: a set whose write fails returns normally with KeyStore[name] = value,
\* and KeyStore stays authoritative: until another set of that name, every
\* later get(name) returns value (when it does not begin with "Your"),
\* whatever the file holds.
C7_WriteFailureKeepsMemory ==
    /\ (result.op = "set" /\ has_attrs /\ ~result.persisted) =>
           /\ result.outcome = "ok"
           /\ Maps(keys, result.name, result.value)
    /\ \A n \in DOMAIN last_set :
           ~last_set[n].persisted => Maps(keys, n, last_set[n].value)
    /\ (result.op = "get" /\ result.name \in DOMAIN last_set
          /\ ~last_set[result.name].persisted
          /\ ~Placeholder(last_set[result.name].value)) =>
           /\ result.outcome = "ok"
           /\ result.value = last_set[result.name].value

\* A get returns the value of a set whose write failed, the file holding
\* no such value.
C7_Witness ==
    /\ result.op = "get" /\ result.outcome = "ok"
    /\ result.name \in DOMAIN last_set
    /\ ~last_set[result.name].persisted
    /\ result.value = last_set[result.name].value
    /\ \/ ~file.exists
       \/ ~JsonLoad(file.text).ok
       \/ result.name \notin FileNames(file.text)
       \/ FileValue(file.text, result.name) # result.value

----------------------------------------------------------------------------
(* C8 *)

\* C8: construction over an existing file (successful or failing), repeated
\* construction and get leave the file as it is; the only writes are set's
\* and the creation of a missing file by the first construction.
C8_FileReadOnly ==
    [][(result'.op \in {"construct", "get"}) =>
         \/ file' = file
         \/ /\ result'.op = "construct" /\ result'.fresh
            /\ ~file.exists /\ file'.exists]_vars

\* A construction over an existing file has failed, and the file is as it
\* was found.
C8_Witness ==
    /\ result.op = "construct" /\ result.fresh
    /\ result.outcome = "RuntimeError"
    /\ at_init.file.exists /\ Len(at_init.file.text) > 0
    /\ file = at_init.file

----------------------------------------------------------------------------
(* C9 *)

\* Construction replaced the file's value of key k by the value of the
\* environment variable upper-case(k).
Replaced(k) ==
    /\ Constructed
    /\ at_init.file.exists
    /\ k \in FileNames(at_init.file.text)
    /\ Overrides(at_init.env, k)

\* C9, as claimed: if construction replaced the file's value of k by the
\* environment's, then after a successful set(j, v) with j # k the file's
\* value for k is the environment's value.
C9_OverrideWrittenByAnySet ==
    (result.op = "set" /\ result.persisted) =>
        \A k \in FileNames(at_init.file.text) \ {result.name} :
            Replaced(k) =>
                /\ k \in FileNames(file.text)
                /\ FileValue(file.text, k) = at_init.env[Upper(k)]

\* C9, amended: ... provided no set(k, .) has been called since construction.
C9_OverrideWrittenUnlessReset ==
    (result.op = "set" /\ result.persisted) =>
        \A k \in FileNames(at_init.file.text) \ {result.name} :
            (Replaced(k) /\ k \notin DOMAIN last_set) =>
                /\ k \in FileNames(file.text)
                /\ FileValue(file.text, k) = at_init.env[Upper(k)]

\* A persisted set of X has written FOO's value for foo, which is not what
\* the file held for foo before construction.
C9_Witness ==
    /\ result.op = "set" /\ result.persisted /\ result.name = Xk
    /\ Replaced(Foo) /\ Foo \notin DOMAIN last_set
    /\ FileValue(file.text, Foo) = at_init.env[FOO]
    /\ FileValue(at_init.file.text, Foo) # at_init.env[FOO]

----------------------------------------------------------------------------
(* C10 *)

\* C10: set(name, value) changes the entry for name and no other, get
\* changes none, and neither removes a key.
C10_KeyStoreGrows ==
    [][/\ (result'.op = "get") => keys' = keys
       /\ (result'.op = "set") =>
            /\ Names(keys) \subseteq Names(keys')
            /\ Names(keys') \subseteq Names(keys) \cup {result'.name}
            /\ \A k \in Names(keys) \ {result'.name} :
                   Values(keys', k) = Values(keys, k)]_vars

\* A set has changed one entry of a store that holds another as well.
C10_Witness ==
    /\ result.op = "set" /\ result.outcome = "ok"
    /\ Cardinality(Names(keys)) >= 2
    /\ Maps(keys, result.name, result.value)
    /\ calls >= 3

====
